---------------------------- MODULE Spec2Model ----------------------------
(***************************************************************************)
(* Model of app.py: a Streamlit explorer for one Azure blob container.     *)
(*                                                                         *)
(* Strings are sequences of one-character strings, so that prefix tests,   *)
(* split('/'), rstrip('/'), lstrip('/') and posixpath.join are computed    *)
(* character by character as Python computes them.  A step of the model is *)
(* one run of the script (main), started by one widget event; st.rerun()   *)
(* ends the run and leaves in pc the handler whose rerun is pending.       *)
(***************************************************************************)
EXTENDS Integers, Sequences, FiniteSets, TLC

(* ------------------------------ bounds -------------------------------- *)
\* longest object key the container holds before the session starts
MaxKeyLen == 3
\* most objects the container holds before the session starts
MaxObjects == 2
\* longest name of a local file given to the uploader
MaxNameLen == 1
\* most files the uploader widget holds at once
MaxFiles == 2
\* most entries the user asks to delete in one session
MaxPending == 1
\* longest key and most objects of the containers of the browsing sessions
DeepKeyLen == 4
DeepObjects == 2

Slash == "/"
Letters == {"a"}
Alphabet == Letters \cup {Slash}

\* content (bytes) of the objects that exist before the session, and of the
\* local files
OldData == <<"o">>
NewData == <<"n", "n">>

(* ------------------------- Python str helpers ------------------------- *)
\* ord(c) for the characters of Alphabet
Ord(c) == IF c = Slash THEN 47 ELSE 97

\* a < b on str: codepoint-wise lexicographic order
RECURSIVE StrLess(_, _)
StrLess(a, b) ==
    IF a = <<>> THEN b # <<>>
    ELSE IF b = <<>> THEN FALSE
    ELSE IF a[1] = b[1] THEN StrLess(Tail(a), Tail(b))
    ELSE Ord(a[1]) < Ord(b[1])

\* s.startswith(p)
StartsWith(s, p) ==
    /\ Len(p) <= Len(s)
    /\ SubSeq(s, 1, Len(p)) = p

\* s.endswith('/')
EndsWithSlash(s) == s # <<>> /\ s[Len(s)] = Slash

\* '/' in s
HasSlash(s) == \E i \in 1..Len(s) : s[i] = Slash

\* s.rstrip('/')
RECURSIVE RStrip(_)
RStrip(s) ==
    IF s # <<>> /\ s[Len(s)] = Slash THEN RStrip(SubSeq(s, 1, Len(s) - 1)) ELSE s

\* s.lstrip('/')
RECURSIVE LStrip(_)
LStrip(s) ==
    IF s # <<>> /\ s[1] = Slash THEN LStrip(Tail(s)) ELSE s

\* s.split('/'): the list of the parts between the slashes, never empty
RECURSIVE SplitFrom(_, _)
SplitFrom(s, cur) ==
    IF s = <<>> THEN <<cur>>
    ELSE IF s[1] = Slash THEN <<cur>> \o SplitFrom(Tail(s), <<>>)
    ELSE SplitFrom(Tail(s), Append(cur, s[1]))

Split(s) == SplitFrom(s, <<>>)

\* '/'.join(parts)
RECURSIVE Join(_)
Join(parts) ==
    IF parts = <<>> THEN <<>>
    ELSE IF Len(parts) = 1 THEN parts[1]
    ELSE parts[1] \o <<Slash>> \o Join(Tail(parts))

\* posixpath.join(a, b) that always puts a '/' between the two
PosixJoinAlwaysSlash(a, b) ==
    IF StartsWith(b, <<Slash>>) THEN b ELSE a \o <<Slash>> \o b

\* posixpath.join(a, b)
PosixJoin(a, b) ==
    IF StartsWith(b, <<Slash>>) THEN b
    ELSE IF a = <<>> \/ EndsWithSlash(a) THEN a \o b
    ELSE a \o <<Slash>> \o b

\* sorted(S) for a set of str
RECURSIVE Sorted(_)
Sorted(S) ==
    IF S = {} THEN <<>>
    ELSE LET m == CHOOSE x \in S : \A y \in S \ {x} : StrLess(x, y)
         IN  <<m>> \o Sorted(S \ {m})

\* sorted(files, key=lambda x: x['name']): a stable insertion sort
RECURSIVE InsertByName(_, _)
InsertByName(sorted, f) ==
    IF sorted = <<>> THEN <<f>>
    ELSE IF StrLess(f.name, Head(sorted).name) THEN <<f>> \o sorted
    ELSE <<Head(sorted)>> \o InsertByName(Tail(sorted), f)

RECURSIVE SortedByName(_)
SortedByName(files) ==
    IF files = <<>> THEN <<>>
    ELSE InsertByName(SortedByName(SubSeq(files, 1, Len(files) - 1)), files[Len(files)])

(* --------------------------- the container ---------------------------- *)
\* every str of 1..n characters
StrUpTo(n) == UNION {[1..m -> Alphabet] : m \in 1..n}

\* every set of at most n elements of S
RECURSIVE SubsetsUpTo(_, _)
SubsetsUpTo(S, n) ==
    IF n = 0 THEN {{}}
    ELSE LET T == SubsetsUpTo(S, n - 1)
         IN  T \cup {t \cup {k} : t \in T, k \in S}

\* names a browser gives to a local file: no '/' in them
FileNames == UNION {[1..m -> Letters] : m \in 1..MaxNameLen}

UploadedFile == [name : FileNames, data : {NewData}]

\* blob.size of a blob with this content
BlobSize(d) == Len(d)

\* container_client.list_blobs(name_starts_with=prefix): every object whose
\* key starts with prefix, in the service's lexicographic order
ListBlobs(st, prefix) ==
    Sorted({k \in DOMAIN st : StartsWith(k, prefix)})

\* container_client.upload_blob(name, data, overwrite=True)
PutBlob(st, key, d) ==
    [k \in DOMAIN st \cup {key} |-> IF k = key THEN d ELSE st[k]]

\* blob_client.delete_blob() of an existing object
RemoveBlob(st, key) == [k \in DOMAIN st \ {key} |-> st[k]]

(* ----------------------- get_directory_contents ----------------------- *)
NormalizePrefix(prefix) ==
    IF EndsWithSlash(prefix) \/ prefix = <<>> THEN prefix ELSE prefix \o <<Slash>>

\* ScanBlobs without the "continue" that ends the directory case: a blob below
\* a subdirectory is appended to files as well
RECURSIVE ScanBlobsNoContinue(_, _, _, _, _)
ScanBlobsNoContinue(st, blobs, prefix, i, acc) ==
    IF i > Len(blobs) THEN acc
    ELSE
      LET name == blobs[i]
          relative_path == IF prefix # <<>>
                           THEN SubSeq(name, Len(prefix) + 1, Len(name))
                           ELSE name
          file == [name |-> name, size |-> BlobSize(st[name]),
                   last_modified |-> st[name]]
      IN  IF relative_path = <<>>
          THEN ScanBlobsNoContinue(st, blobs, prefix, i + 1, acc)
          ELSE IF HasSlash(relative_path)
          THEN LET dir_path == prefix \o Split(relative_path)[1] \o <<Slash>>
               IN  ScanBlobsNoContinue(st, blobs, prefix, i + 1,
                       [directories |-> acc.directories \cup {dir_path},
                        files |-> Append(acc.files, file)])
          ELSE ScanBlobsNoContinue(st, blobs, prefix, i + 1,
                       [acc EXCEPT !.files = Append(@, file)])

\* ScanBlobs with dir_path = prefix + dir_name, without the '/' at its end
RECURSIVE ScanBlobsNoTrailingSlash(_, _, _, _, _)
ScanBlobsNoTrailingSlash(st, blobs, prefix, i, acc) ==
    IF i > Len(blobs) THEN acc
    ELSE
      LET name == blobs[i]
          relative_path == IF prefix # <<>>
                           THEN SubSeq(name, Len(prefix) + 1, Len(name))
                           ELSE name
      IN  IF relative_path = <<>>
          THEN ScanBlobsNoTrailingSlash(st, blobs, prefix, i + 1, acc)
          ELSE IF HasSlash(relative_path)
          THEN LET dir_name == Split(relative_path)[1]
                   dir_path == prefix \o dir_name
               IN  ScanBlobsNoTrailingSlash(st, blobs, prefix, i + 1,
                             [acc EXCEPT !.directories = @ \cup {dir_path}])
          ELSE ScanBlobsNoTrailingSlash(st, blobs, prefix, i + 1,
                         [acc EXCEPT !.files = Append(@,
                             [name |-> name, size |-> BlobSize(st[name]),
                              last_modified |-> st[name]])])

\* the body of "for blob in blobs", from blob i on; acc = [directories, files].
\* There is no clock: the content written stands for blob.last_modified.
RECURSIVE ScanBlobs(_, _, _, _, _)
ScanBlobs(st, blobs, prefix, i, acc) ==
    IF i > Len(blobs) THEN acc
    ELSE
      LET name == blobs[i]
          relative_path == IF prefix # <<>>
                           THEN SubSeq(name, Len(prefix) + 1, Len(name))
                           ELSE name
      IN  IF relative_path = <<>> THEN ScanBlobs(st, blobs, prefix, i + 1, acc)
          ELSE IF HasSlash(relative_path)
          THEN LET dir_name == Split(relative_path)[1]
                   dir_path == prefix \o dir_name \o <<Slash>>
               IN  ScanBlobs(st, blobs, prefix, i + 1,
                             [acc EXCEPT !.directories = @ \cup {dir_path}])
          ELSE ScanBlobs(st, blobs, prefix, i + 1,
                         [acc EXCEPT !.files = Append(@,
                             [name |-> name, size |-> BlobSize(st[name]),
                              last_modified |-> st[name]])])

\* a directory entry built like a file entry, with the keys of a blob
DirEntryWithSize(d) ==
    [name |-> d, size |-> Len(<<>>), last_modified |-> <<>>, is_directory |-> TRUE]

DirEntry(d) == [name |-> d, is_directory |-> TRUE]

FileEntry(f) == [name |-> f.name, size |-> f.size,
                 last_modified |-> f.last_modified, is_directory |-> FALSE]

\* get_directory_contents that returns file_list + dir_list
get_directory_contents_files_first(st, prefix0, listOk) ==
    IF ~listOk THEN <<>>
    ELSE
      LET prefix == NormalizePrefix(prefix0)
          acc == ScanBlobs(st, ListBlobs(st, prefix), prefix, 1,
                           [directories |-> {}, files |-> <<>>])
          dirs == Sorted(acc.directories)
          fils == SortedByName(acc.files)
          dir_list == [i \in 1..Len(dirs) |-> DirEntry(dirs[i])]
          file_list == [i \in 1..Len(fils) |-> FileEntry(fils[i])]
      IN  file_list \o dir_list

\* get_directory_contents(container_client, prefix); listOk = FALSE is a
\* listing call that raises, which the except clause turns into []
get_directory_contents(st, prefix0, listOk) ==
    IF ~listOk THEN <<>>
    ELSE
      LET prefix == NormalizePrefix(prefix0)
          acc == ScanBlobs(st, ListBlobs(st, prefix), prefix, 1,
                           [directories |-> {}, files |-> <<>>])
          dirs == Sorted(acc.directories)
          fils == SortedByName(acc.files)
          dir_list == [i \in 1..Len(dirs) |-> DirEntry(dirs[i])]
          file_list == [i \in 1..Len(fils) |-> FileEntry(fils[i])]
      IN  dir_list \o file_list

(* ---------------------------- upload_files ---------------------------- *)
\* blob_name = posixpath.join(current_path, file.name).lstrip('/')
JoinKey(path, name) == LStrip(PosixJoin(path, name))

\* the for loop of upload_files from file i on; the put of file failAt raises
\* and the except clause around the whole loop ends the batch (0: none raises)
RECURSIVE upload_files(_, _, _, _, _)
upload_files(st, files, path, i, failAt) ==
    IF i > Len(files) \/ i = failAt THEN st
    ELSE upload_files(PutBlob(st, JoinKey(path, files[i].name), files[i].data),
                      files, path, i + 1, failAt)

(* ------------------------------ deletes ------------------------------- *)
\* delete_blob: vanished = the object was removed by someone else after the
\* listing (NotFound), delete_blob() raises and the function returns False
delete_blob(st, name, vanished) ==
    [store |-> RemoveBlob(st, name), ok |-> ~vanished]

\* the for loop of delete_directory over the listed blobs from blob i on;
\* blob number gone (0: none) was removed by someone else after the listing:
\* its delete raises and the except clause around the loop ends the batch
RECURSIVE DeleteFrom(_, _, _, _)
DeleteFrom(st, blobs, i, gone) ==
    IF i > Len(blobs) THEN st
    ELSE IF i = gone THEN RemoveBlob(st, blobs[i])
    ELSE DeleteFrom(RemoveBlob(st, blobs[i]), blobs, i + 1, gone)

delete_directory(st, directory_path, gone) ==
    [store |-> DeleteFrom(st, ListBlobs(st, directory_path), 1, gone),
     ok |-> gone = 0]

(* ------------------------------ download ------------------------------ *)
\* download_blob as the module binds it: the definition of lines 294-302,
\* which replaces the chunked one of lines 240-281.  One readall() of the
\* whole object and no progress bar; vanished = the object was removed by
\* someone else after the listing, download_blob() raises and the function
\* returns None (here the empty bytes: the caller tests "if blob_data").
\* progress = the values given to progress_bar.progress, in order.
download_blob(st, blob_name, vanished) ==
    [data |-> IF vanished THEN <<>> ELSE st[blob_name],
     progress |-> <<>>]

(* ----------------------------- navigation ----------------------------- *)
\* the Back handler without rstrip('/'): the last part is the empty one
ParentOfNoRStrip(path) ==
    LET path_parts == Split(path)
        joined == Join(SubSeq(path_parts, 1, Len(path_parts) - 1))
    IN  IF joined # <<>> THEN joined \o <<Slash>> ELSE joined

\* the Back handler: the parent of current_path
ParentOf(path) ==
    LET path_parts == Split(RStrip(path))
        joined == Join(SubSeq(path_parts, 1, Len(path_parts) - 1))
    IN  IF joined # <<>> THEN joined \o <<Slash>> ELSE joined

(* ------------------------------- state -------------------------------- *)
VARIABLES
    store,               \* the container: object key -> content
    connected,           \* st.session_state.connected
    blob_service_client, \* st.session_state.blob_service_client is not None
    container_client,    \* st.session_state.container_client is not None
    current_path,        \* st.session_state.current_path
    show_welcome,        \* st.session_state.show_welcome
    confirm,             \* the names n with session_state["confirm_delete_" n]
    uploaded_files,      \* the files the st.file_uploader widget holds
    sidebar_error,       \* the st.error that the sidebar shows, "" for none
    save_data,           \* data of the "Save File" button shown, <<>> for none
    progress,            \* the values the progress bar was given in the run
    pc                   \* "idle", or the handler that called st.rerun()

vars == <<store, connected, blob_service_client, container_client, current_path,
          show_welcome, confirm, uploaded_files, sidebar_error, save_data,
          progress, pc>>

\* what a run shows when no connect attempt fails and nothing is downloaded
NothingShown ==
    /\ sidebar_error' = ""
    /\ save_data' = <<>>
    /\ progress' = <<>>

session == <<connected, blob_service_client, container_client, show_welcome>>

\* the session state of lines 15-25 over a container that holds keys
InitOver(keySets) ==
    /\ store \in {[k \in S |-> OldData] : S \in keySets}
    /\ connected = FALSE
    /\ blob_service_client = FALSE
    /\ container_client = FALSE
    /\ current_path = <<>>
    /\ show_welcome = TRUE
    /\ confirm = {}
    /\ uploaded_files = <<>>
    /\ sidebar_error = ""
    /\ save_data = <<>>
    /\ progress = <<>>
    /\ pc = "idle"

Init == InitOver(SubsetsUpTo(StrUpTo(MaxKeyLen), MaxObjects))

(* --------------------------- the script run --------------------------- *)
\* What show_file_browser lists and renders in the state as it is: line 436
Items == get_directory_contents(store, current_path, TRUE)

\* The rest of show_file_browser when no button fires (any more): the upload
\* section puts every file the uploader holds under current_path.
Browse(st, files, failAt) ==
    /\ uploaded_files' = files
    /\ store' = upload_files(st, files, current_path, 1, failAt)
    /\ pc' = "idle"

\* st.rerun(): the run ends here, before anything else is rendered
StRerun(handler) ==
    /\ pc' = handler
    /\ NothingShown
    /\ UNCHANGED uploaded_files

FailChoices(files) == 0..Len(files)

EntryNames(lst) == {lst[i].name : i \in 1..Len(lst)}

\* every list of 1..n elements of S
SeqUpTo(S, n) == UNION {[1..m -> S] : m \in 1..n}

\* what the uploader can hold
FileLists == {<<>>} \cup SeqUpTo(UploadedFile, MaxFiles)

\* validate_container_access without the next(...) that makes the lazy
\* list_blobs() send its request: nothing raises and the clients come back
validate_container_access_lazy(accessOk) == <<TRUE, TRUE>>

\* validate_container_access: the clients, or (None, None) when the listing
\* call raises
validate_container_access(accessOk) ==
    IF accessOk THEN <<TRUE, TRUE>> ELSE <<FALSE, FALSE>>

\* show_sidebar, the button reads "Connect"; filled = the three text inputs
\* are non-empty, accessOk = the listing call of the validation succeeds
ConnectWith(filled, accessOk) ==
    /\ pc = "idle"
    /\ ~connected
    /\ LET clients == IF filled THEN validate_container_access(accessOk)
                      ELSE <<FALSE, FALSE>>
       IN  IF filled /\ clients[1] /\ clients[2]
           THEN /\ blob_service_client' = clients[1]
                /\ container_client' = clients[2]
                /\ connected' = TRUE
                /\ show_welcome' = FALSE
                /\ StRerun("connect")
           ELSE /\ sidebar_error' = IF filled THEN "Connection failed"
                                    ELSE "Please provide all connection details"
                /\ save_data' = <<>>
                /\ progress' = <<>>
                /\ UNCHANGED <<session, uploaded_files, pc>>
    /\ UNCHANGED <<store, current_path, confirm>>

Connect == \E filled \in BOOLEAN, accessOk \in BOOLEAN : ConnectWith(filled, accessOk)

\* Disconnect that leaves current_path as it is
DisconnectKeepsPath ==
    /\ pc = "idle"
    /\ connected
    /\ blob_service_client' = FALSE
    /\ container_client' = FALSE
    /\ connected' = FALSE
    /\ show_welcome' = TRUE
    /\ StRerun("disconnect")
    /\ UNCHANGED <<store, confirm, current_path>>

\* show_sidebar, the button reads "Disconnect"
Disconnect ==
    /\ pc = "idle"
    /\ connected
    /\ blob_service_client' = FALSE
    /\ container_client' = FALSE
    /\ connected' = FALSE
    /\ current_path' = <<>>
    /\ show_welcome' = TRUE
    /\ StRerun("disconnect")
    /\ UNCHANGED <<store, confirm>>

\* main() run again after st.rerun(): no widget fired.  A widget that a
\* complete run does not render loses its state: the uploader holds nothing
\* after a run that shows no file browser.
RerunWith(failAt) ==
    /\ pc # "idle"
    /\ IF connected
       THEN Browse(store, uploaded_files, failAt)
       ELSE /\ failAt = 0
            /\ uploaded_files' = <<>>
            /\ pc' = "idle"
            /\ UNCHANGED store
    /\ NothingShown
    /\ UNCHANGED <<session, current_path, confirm>>

Rerun == \E failAt \in FailChoices(uploaded_files) : RerunWith(failAt)

\* show_navigation, the Back button (rendered only below the root)
GoBack ==
    /\ pc = "idle"
    /\ connected
    /\ current_path # <<>>
    /\ current_path' = ParentOf(current_path)
    /\ StRerun("back")
    /\ UNCHANGED <<session, store, confirm>>

\* show_navigation, the Refresh button
Refresh ==
    /\ pc = "idle"
    /\ connected
    /\ StRerun("refresh")
    /\ UNCHANGED <<session, store, current_path, confirm>>

\* EnterDirectory that also forgets the entries pending a delete
EnterDirectoryClearsPending(item) ==
    /\ pc = "idle"
    /\ connected
    /\ item.is_directory
    /\ current_path' = item.name
    /\ confirm' = {}
    /\ StRerun("enter")
    /\ UNCHANGED <<session, store>>

\* show_file_browser, the button of a directory entry.  A click starts a run
\* that lists again, and a button fires only if that run renders it: item is
\* an entry of the new listing.  (A click on an entry that is no longer
\* listed, or a listing that raises and renders nothing, fires no button: it
\* is the run that Refresh starts.)
EnterDirectory(item) ==
    /\ pc = "idle"
    /\ connected
    /\ item.is_directory
    /\ current_path' = item.name
    /\ StRerun("enter")
    /\ UNCHANGED <<session, store, confirm>>

\* how the delete of an entry can meet an object that is gone: the number of
\* the listed blob that someone else removed after the listing, 0 for none
GoneChoices(st, item) ==
    IF item.is_directory THEN 0..Len(ListBlobs(st, item.name)) ELSE 0..1

\* show_file_browser, the delete button of an entry of the listing
RequestDeleteWith(item, failAt, gone) ==
    /\ pc = "idle"
    /\ connected
    /\ IF item.name \in confirm
       THEN LET r == IF item.is_directory
                     THEN delete_directory(store, item.name, gone)
                     ELSE delete_blob(store, item.name, gone = 1)
            IN  /\ IF r.ok
                   THEN /\ failAt = 0
                        /\ store' = r.store
                        /\ StRerun("delete")
                   ELSE /\ Browse(r.store, uploaded_files, failAt)
                        /\ NothingShown
                /\ UNCHANGED confirm
       ELSE /\ gone = 0
            /\ Cardinality(confirm) < MaxPending
            /\ confirm' = confirm \cup {item.name}
            /\ Browse(store, uploaded_files, failAt)
            /\ NothingShown
    /\ UNCHANGED <<session, current_path>>

RequestDelete(item) ==
    \E failAt \in FailChoices(uploaded_files), gone \in GoneChoices(store, item) :
        RequestDeleteWith(item, failAt, gone)

\* the user changes what the uploader holds; the run that follows uploads it
SelectFilesWith(files, failAt) ==
    /\ pc = "idle"
    /\ connected
    /\ files # uploaded_files
    /\ Browse(store, files, failAt)
    /\ NothingShown
    /\ UNCHANGED <<session, current_path, confirm>>

SelectFiles(files) == \E failAt \in FailChoices(files) : SelectFilesWith(files, failAt)

\* show_file_browser, the download button of a file entry of the listing:
\* the object is read before the upload section runs, and the "Save File"
\* button is rendered only "if blob_data"
DownloadWith(item, failAt, vanished) ==
    /\ pc = "idle"
    /\ connected
    /\ ~item.is_directory
    /\ LET r == download_blob(store, item.name, vanished)
       IN  /\ save_data' = r.data
           /\ progress' = r.progress
    /\ sidebar_error' = ""
    /\ Browse(store, uploaded_files, failAt)
    /\ UNCHANGED <<session, current_path, confirm>>

DownloadBlob(item) ==
    \E failAt \in FailChoices(uploaded_files), vanished \in BOOLEAN :
        DownloadWith(item, failAt, vanished)

\* another client of the container removes an object
ExternalDelete(key) ==
    /\ store' = RemoveBlob(store, key)
    /\ UNCHANGED <<session, current_path, confirm, uploaded_files, sidebar_error,
                   save_data, progress, pc>>

\* the user's click on any entry of the listing, choice of files, and the
\* other client's choice of an object
Enter == \E n \in 1..Len(Items) : EnterDirectory(Items[n])

Delete == \E n \in 1..Len(Items) : RequestDelete(Items[n])

Select == \E files \in FileLists : SelectFiles(files)

Download == \E n \in 1..Len(Items) : DownloadBlob(Items[n])

External == \E key \in DOMAIN store : ExternalDelete(key)

Next ==
    \/ Connect
    \/ Disconnect
    \/ Rerun
    \/ GoBack
    \/ Refresh
    \/ Enter
    \/ Delete
    \/ Select
    \/ Download
    \/ External

Spec == Init /\ [][Next]_vars

(* A session that only browses, over deeper containers: the listing and    *)
(* the navigation are checked on more keys than the full session affords.  *)
InitBrowse == InitOver(SubsetsUpTo(StrUpTo(DeepKeyLen), DeepObjects))

NextBrowse ==
    \/ Connect
    \/ Disconnect
    \/ Rerun
    \/ GoBack
    \/ Refresh
    \/ Enter

BrowseSpec == InitBrowse /\ [][NextBrowse]_vars


(* ======================= the listing (BrowseSpec) ====================== *)
\* The listing checked is Items, the listing of current_path.  Every prefix
\* below which the container holds a key is a current_path that Enter reaches
\* from the root, so the states of a browsing session cover the listings of
\* every container of InitBrowse at every prefix that lists something.

\* the keys below prefix P, and the path of such a key relative to P
KeysUnder(P) ==
    {k \in DOMAIN store : Len(k) > Len(P) /\ \A i \in 1..Len(P) : k[i] = P[i]}

Relative(k, P) == [i \in 1..(Len(k) - Len(P)) |-> k[i + Len(P)]]

SlashAt(r) == {i \in 1..Len(r) : r[i] = Slash}

\* the part of r before its first '/'
FirstSegment(r) ==
    LET first == CHOOSE i \in SlashAt(r) : \A j \in SlashAt(r) : i <= j
    IN  [i \in 1..(first - 1) |-> r[i]]

DirNames(lst) == {lst[i].name : i \in {j \in 1..Len(lst) : lst[j].is_directory}}

FileNamesOf(lst) == {lst[i].name : i \in {j \in 1..Len(lst) : ~lst[j].is_directory}}

\* the directory that stands for a key of KeysUnder(P) with a '/' below P
DirOf(k, P) == P \o FirstSegment(Relative(k, P)) \o <<Slash>>

\* C1: for every set of keys and every normalized prefix P the listing of P has
\* as directories exactly the P + first segment + '/' of the keys below P whose
\* relative path has a '/', as files exactly the keys below P whose relative
\* path has none, and every key below P is shown by exactly one of the two.
C1_ListingPartition ==
    LET P == current_path
        lst == Items
        deep == {k \in KeysUnder(P) : SlashAt(Relative(k, P)) # {}}
        flat == KeysUnder(P) \ deep
    IN  /\ DirNames(lst) = {DirOf(k, P) : k \in deep}
        /\ FileNamesOf(lst) = flat
        /\ DirNames(lst) \cap FileNamesOf(lst) = {}
        /\ \A k \in KeysUnder(P) :
               (k \in FileNamesOf(lst)) # (k \in deep /\ DirOf(k, P) \in DirNames(lst))

\* a rendered listing with a directory, a file, and a key two levels down
C1_Witness ==
    /\ connected /\ pc = "idle"
    /\ DirNames(Items) # {} /\ FileNamesOf(Items) # {}
    /\ \E k \in KeysUnder(current_path) :
           Cardinality(SlashAt(Relative(k, current_path))) >= 2

\* C8: a directory entry has a name ending in '/' and neither size nor
\* last_modified; a file entry has a name that does not end in '/'; a stored
\* key ending in '/' is never a file entry.
C8_EntryShape ==
    LET lst == Items
    IN  /\ \A i \in 1..Len(lst) :
               IF lst[i].is_directory
               THEN /\ lst[i].name[Len(lst[i].name)] = Slash
                    /\ DOMAIN lst[i] = {"name", "is_directory"}
               ELSE /\ lst[i].name[Len(lst[i].name)] # Slash
                    /\ DOMAIN lst[i] = {"name", "size", "last_modified", "is_directory"}
        /\ \A k \in DOMAIN store :
               k[Len(k)] = Slash => k \notin FileNamesOf(lst)

\* a rendered listing with a file and with a directory whose name is a stored key
C8_Witness ==
    /\ connected /\ pc = "idle"
    /\ FileNamesOf(Items) # {}
    /\ DirNames(Items) \cap DOMAIN store # {}

\* a < b in codepoint order, said without recursion
LexLess(a, b) ==
    \E i \in 1..(Len(b)) :
        /\ i <= Len(a) + 1
        /\ \A j \in 1..(i - 1) : a[j] = b[j]
        /\ (i = Len(a) + 1 \/ Ord(a[i]) < Ord(b[i]))

\* C9: a listing has all directories first, in ascending order of the full
\* key, then all files in ascending order of the full key, and no entry twice:
\* the objects below one subdirectory make one directory entry.
C9_ListingOrder ==
    LET lst == Items
    IN  /\ \A i, j \in 1..Len(lst) :
               i < j => /\ lst[i].is_directory \/ ~lst[j].is_directory
                        /\ lst[i].is_directory = lst[j].is_directory
                               => LexLess(lst[i].name, lst[j].name)
        /\ Cardinality(DirNames(lst)) + Cardinality(FileNamesOf(lst)) = Len(lst)

\* a rendered listing with one directory entry for two objects, in a container
\* where some listing has two entries to order
C9_Witness ==
    /\ connected /\ pc = "idle"
    /\ \E d \in DirNames(Items) :
           /\ Cardinality(KeysUnder(d)) >= 2
           /\ Len(Items) = 1
           /\ Len(get_directory_contents(store, d, TRUE)) >= 2

(* ========================= Back (BrowseSpec) =========================== *)
\* the number of segments of a prefix: each one ends in a '/'
Segments(x) == Cardinality(SlashAt(x))

\* ParentOf applied n times
RECURSIVE ParentIter(_, _)
ParentIter(x, n) == IF n = 0 THEN x ELSE ParentIter(ParentOf(x), n - 1)

\* C10: from the current prefix, Back applied at most segments(prefix) times
\* reaches the root; at the root the parent is the root and Back is disabled.
C10_BackReachesRoot ==
    /\ \E n \in 0..Segments(current_path) : ParentIter(current_path, n) = <<>>
    /\ ParentOf(<<>>) = <<>>
    /\ current_path = <<>> => ~ENABLED GoBack

\* Back has just been clicked two or more levels down
C10_Witness ==
    /\ connected /\ pc = "back"
    /\ Segments(current_path) >= 1

(* ============================ uploads (Spec) =========================== *)
\* s without its leading slashes
StripLeading(s) ==
    LET rest == {i \in 1..Len(s) : s[i] # Slash}
    IN  IF rest = {} THEN <<>>
        ELSE LET first == CHOOSE i \in rest : \A j \in rest : i <= j
             IN  [i \in 1..(Len(s) - first + 1) |-> s[i + first - 1]]

\* a run that does nothing to the container but upload files: the run after
\* the uploader changed, or a rerun of a connected session; files is what
\* the uploader holds after the run
UploadRun(files, failAt) ==
    \/ SelectFilesWith(files, failAt)
    \/ connected /\ uploaded_files = files /\ RerunWith(failAt)

\* C6: an upload of file name N under prefix P writes the object with key
\* P + N without leading slashes, over whatever was there, and nothing else:
\* after the run the container holds what it held and these keys with the
\* uploaded content.
C6_UploadKey ==
    [][\A files \in {uploaded_files'} : \A failAt \in FailChoices(files) :
         UploadRun(files, failAt) =>
           LET put == {i \in 1..Len(files) : failAt = 0 \/ i < failAt}
               keys == {StripLeading(current_path \o files[i].name) : i \in put}
           IN  /\ DOMAIN store' = DOMAIN store \cup keys
               /\ \A i \in put :
                      store'[StripLeading(current_path \o files[i].name)] = files[i].data
               /\ \A k \in DOMAIN store \ keys : store'[k] = store[k]]_vars

\* below the root, every file the uploader holds is in the container under
\* current_path with the uploaded content
C6_Witness ==
    /\ connected /\ pc = "idle"
    /\ current_path # <<>>
    /\ uploaded_files # <<>>
    /\ \A i \in 1..Len(uploaded_files) :
           LET key == current_path \o uploaded_files[i].name
           IN  key \in DOMAIN store /\ store[key] = uploaded_files[i].data

\* C5: a put that raises does not end the batch: every file after the failing
\* one is in the container after the run.
C5_UploadFailOpen ==
    [][\A files \in {uploaded_files'} : \A failAt \in 1..Len(files) :
         UploadRun(files, failAt) =>
           \A i \in (failAt + 1)..Len(files) :
               LET key == JoinKey(current_path, files[i].name)
               IN  key \in DOMAIN store' /\ store'[key] = files[i].data]_vars

\* C7: two different pairs of a prefix that current_path takes and a file name
\* never give the same upload key; the prefixes here are the root and the
\* current one.
C7_JoinKeyInjective ==
    \A p1, p2 \in {<<>>, current_path} : \A n1, n2 \in FileNames :
        JoinKey(p1, n1) = JoinKey(p2, n2) => p1 = p2 /\ n1 = n2

(* ============================ deletes (Spec) =========================== *)
\* the keys of container st that start with D
KeysWithPrefix(st, D) ==
    {k \in DOMAIN st : Len(k) >= Len(D) /\ \A i \in 1..Len(D) : k[i] = D[i]}

\* C2: the first click on the delete button of a file entry leaves the object
\* in the container and marks the entry pending; the second click removes the
\* object and leaves the entry no longer pending.
C2_ConfirmThenDelete ==
    [][\A n \in 1..Len(Items) : \A failAt \in FailChoices(uploaded_files) :
       \A gone \in 0..1 :
         (~Items[n].is_directory /\ RequestDeleteWith(Items[n], failAt, gone)) =>
           IF Items[n].name \notin confirm
           THEN Items[n].name \in DOMAIN store' /\ Items[n].name \in confirm'
           ELSE gone = 0 =>
                  Items[n].name \notin DOMAIN store' /\ Items[n].name \notin confirm']_vars

\* C3: the confirmed delete of a directory entry D leaves no object whose key
\* starts with D, and the listing of the prefix that showed D no longer has D.
C3_DirectoryDeleteRemovesAll ==
    [][\A n \in 1..Len(Items) : \A failAt \in FailChoices(uploaded_files) :
       \A gone \in GoneChoices(store, Items[n]) :
         (/\ Items[n].is_directory
          /\ Items[n].name \in confirm
          /\ RequestDeleteWith(Items[n], failAt, gone)) =>
           /\ KeysWithPrefix(store', Items[n].name) = {}
           /\ Items[n].name \notin
                  DirNames(get_directory_contents(store', current_path, TRUE))]_vars

\* C4: when one object below D is gone while the confirmed delete of D goes
\* through the listing, every other object below D is deleted all the same.
C4_DirectoryDeleteBestEffort ==
    [][\A n \in 1..Len(Items) : \A failAt \in FailChoices(uploaded_files) :
       \A gone \in GoneChoices(store, Items[n]) \ {0} :
         (/\ Items[n].is_directory
          /\ Items[n].name \in confirm
          /\ RequestDeleteWith(Items[n], failAt, gone)) =>
           KeysWithPrefix(store', Items[n].name) = {}]_vars

(* ======================= the session (Spec) ============================ *)
\* C11: a disconnect from any connected state leaves the session
\* unauthenticated with no client held, current_path empty and no entry
\* pending a delete confirmation.
C11_DisconnectClearsAll ==
    [][Disconnect =>
         /\ ~connected' /\ ~blob_service_client' /\ ~container_client'
         /\ current_path' = <<>>
         /\ confirm' = {}]_vars

\* C12: a connect attempt with all details given whose listing call fails
\* shows the connection failure and goes on without a rerun; the session
\* stays disconnected, holds no client, and current_path is what it was.
C12_FailedConnect ==
    [][ConnectWith(TRUE, FALSE) =>
         /\ sidebar_error' = "Connection failed"
         /\ pc' = "idle"
         /\ ~connected' /\ ~blob_service_client' /\ ~container_client'
         /\ show_welcome' = show_welcome
         /\ current_path' = current_path]_vars

\* a connect attempt has just failed, in a browser session that was
\* connected before (an entry is still pending from then)
C12_Witness ==
    /\ sidebar_error = "Connection failed"
    /\ ~connected /\ pc = "idle"
    /\ confirm # {}

(* ============================ download (Spec) ========================== *)
\* C13: the download of an existing object reports progress after each chunk
\* read, as the bytes read so far out of the size of the object: there is a
\* report, the reports never decrease and never pass the size, the last one
\* is the size (progress 1), and the content of the object is handed over.
C13_DownloadProgress ==
    [][\A n \in 1..Len(Items) : \A failAt \in FailChoices(uploaded_files) :
         (~Items[n].is_directory /\ DownloadWith(Items[n], failAt, FALSE)) =>
           LET totalSize == BlobSize(store[Items[n].name])
           IN  /\ progress' # <<>>
               /\ \A i \in 1..Len(progress') :
                      /\ progress'[i] <= totalSize
                      /\ i > 1 => progress'[i - 1] <= progress'[i]
               /\ progress'[Len(progress')] = totalSize
               /\ save_data' = store[Items[n].name]]_vars

(* ================== pending confirmations (Spec) ======================= *)
\* the run that a click on Refresh, on a directory or on Back ends with
NavigationRerun == pc \in {"refresh", "enter", "back"} /\ Rerun

\* C14: Refresh and the run after it leave current_path as it is; Refresh,
\* entering a directory, Back and the runs after them leave the set of
\* pending entries as it is; and a click on the delete button of an entry
\* that is pending, however long ago it was marked, performs the delete.
C14_NavigationKeepsPending ==
    [][/\ (pc = "idle" /\ Refresh) \/ (pc = "refresh" /\ Rerun)
            => current_path' = current_path
       /\ pc = "idle" /\ pc' # "idle" /\ (Refresh \/ Enter \/ GoBack)
            => confirm' = confirm
       /\ NavigationRerun => confirm' = confirm
       /\ pc = "idle" /\ confirm # {} =>
            LET pending == {n \in 1..Len(Items) : Items[n].name \in confirm}
            IN  \A n \in pending : \A failAt \in FailChoices(uploaded_files) :
                  LET item == Items[n]
                  IN  RequestDeleteWith(item, failAt, 0) =>
                        IF item.is_directory
                        THEN KeysWithPrefix(store', item.name) = {}
                        ELSE item.name \notin DOMAIN store']_vars

\* Back has just brought the user to a listing with an entry that is pending:
\* it was marked before the user entered the subdirectory and came back
C14_Witness ==
    /\ connected /\ pc = "back"
    /\ \E n \in 1..Len(Items) : Items[n].name \in confirm

(* ======================= stale directories (Spec) ====================== *)
\* the prefix whose listing shows the directory entry D: D without its last
\* segment, which is what lies between the last two slashes of D
EnteredFrom(D) ==
    LET inner == {i \in 1..(Len(D) - 1) : D[i] = Slash}
    IN  IF inner = {} THEN <<>>
        ELSE LET last == CHOOSE i \in inner : \A j \in inner : j <= i
             IN  [i \in 1..last |-> D[i]]

\* the user is in a directory below which the container holds nothing
Stale == connected /\ current_path # <<>> /\ KeysWithPrefix(store, current_path) = {}

\* C15: a click on a directory entry is always possible and makes the name of
\* the entry the current prefix, whatever the container holds by then; in a
\* directory whose objects are all gone the listing is empty, and Back from
\* there leads to the prefix in whose listing the directory was.
C15_StaleEnter ==
    /\ [](pc = "idle" /\ connected =>
            \A d \in DirNames(Items) : ENABLED EnterDirectory(DirEntry(d)))
    /\ [][/\ pc = "idle" /\ connected =>
               \A d \in DirNames(Items) :
                   EnterDirectory(DirEntry(d)) => current_path' = d
          /\ Stale => Items = <<>>
          /\ Stale /\ GoBack => current_path' = EnteredFrom(current_path)]_vars

C17_SessionFlagsConsistent ==
    /\ connected <=> container_client
    /\ ~connected => current_path = <<>>

\* the session has just been disconnected; the uploader still holds the
\* files of the session that ended
C17_Witness ==
    /\ pc = "disconnect"
    /\ ~connected /\ ~container_client
    /\ uploaded_files # <<>>

(* ===================== enter and Back (BrowseSpec) ===================== *)
\* C18: for the prefix P the user is at and every directory entry D of the
\* listing of P, the click on D followed by Back leads to P again: the
\* parent that Back computes from D is P.
C18_EnterBackRoundTrip ==
    connected /\ pc = "idle" =>
        \A d \in DirNames(Items) : ParentOf(d) = current_path

=============================================================================
